---- MODULE Spec2Model ----
(***************************************************************************)
(* Codec matching core of rtpcodec.go: codecParametersFuzzySearch,         *)
(* findRTXPayloadType, findFECPayloadType and rtcpFeedbackIntersection.    *)
(*                                                                         *)
(* Go strings are modelled as sequences of one-character strings, so that  *)
(* case folding, substring search and decimal formatting are computed and  *)
(* not assumed.                                                            *)
(***************************************************************************)
EXTENDS Integers, Sequences, FiniteSets, TLC

VARIABLES needle, haystack, payload, a, b, op, ret, callers

vars == <<needle, haystack, payload, a, b, op, ret, callers>>

(***************************************************************************)
(* Strings                                                                 *)
(***************************************************************************)
UpperChars == <<"A","B","C","D","E","F","G","H","I","J","K","L","M",
                "N","O","P","Q","R","S","T","U","V","W","X","Y","Z">>
LowerChars == <<"a","b","c","d","e","f","g","h","i","j","k","l","m",
                "n","o","p","q","r","s","t","u","v","w","x","y","z">>
DigitChars == <<"0","1","2","3","4","5","6","7","8","9">>

OtherChars == <<"/", "=", ";", "-", " ">>

Range(s) == {s[i] : i \in 1..Len(s)}
Chars == Range(UpperChars) \cup Range(LowerChars) \cup Range(DigitChars) \cup Range(OtherChars)

\* unicode.ToLower restricted to ASCII, tabulated over the characters in use
LowerOf ==
    [c \in Chars |->
        IF \E i \in 1..Len(UpperChars) : UpperChars[i] = c
        THEN LowerChars[CHOOSE i \in 1..Len(UpperChars) : UpperChars[i] = c]
        ELSE c]

ToLowerChar(c) == LowerOf[c]

\* strings.ToLower
ToLower(s) == [i \in 1..Len(s) |-> ToLowerChar(s[i])]

\* strings.EqualFold: equality under simple case folding
EqualFold(s, t) ==
    /\ Len(s) = Len(t)
    /\ \A i \in 1..Len(s) : ToLowerChar(s[i]) = ToLowerChar(t[i])

\* strings.Contains: substr occurs in s at some offset, bytes compared exactly
Contains(s, substr) ==
    \E k \in 0..(Len(s) - Len(substr)) :
        \A i \in 1..Len(substr) : s[k + i] = substr[i]

\* the %d verb of fmt.Sprintf for a non-negative integer
RECURSIVE FormatDecimal(_)
FormatDecimal(n) ==
    IF n < 10 THEN <<DigitChars[n + 1]>>
    ELSE FormatDecimal(n \div 10) \o <<DigitChars[(n % 10) + 1]>>

\* fmt.Sprintf("apt=%d", needle)
AptString(p) == <<"a","p","t","=">> \o FormatDecimal(p)

(***************************************************************************)
(* Mime types and the FlexFEC marker                                       *)
(***************************************************************************)
MimeAudioOpus      == <<"a","u","d","i","o","/","o","p","u","s">>
MimeAudioOpusUpper == <<"a","u","d","i","o","/","O","P","U","S">>
MimeVideoVP8       == <<"v","i","d","e","o","/","V","P","8">>
MimeFlexFEC03      == <<"v","i","d","e","o","/","f","l","e","x","f","e","c","-","0","3">>
MimeFlexFEC03Upper == <<"V","I","D","E","O","/","F","L","E","X","F","E","C","-","0","3">>

\* the marker findFECPayloadType looks for
MimeTypeFlexFEC == <<"v","i","d","e","o","/","f","l","e","x","f","e","c">>

(***************************************************************************)
(* The format-parameter interpreter (package internal/fmtp)                *)
(***************************************************************************)
\* index of the first occurrence of character c in s, 0 when absent
IndexOf(s, c) ==
    IF \E i \in 1..Len(s) : s[i] = c
    THEN CHOOSE i \in 1..Len(s) : s[i] = c /\ \A j \in 1..(i - 1) : s[j] # c
    ELSE 0

\* strings.Split(s, sep) for a one-character separator
RECURSIVE Split(_, _)
Split(s, sep) ==
    LET k == IndexOf(s, sep)
    IN  IF k = 0 THEN <<s>>
        ELSE <<SubSeq(s, 1, k - 1)>> \o Split(SubSeq(s, k + 1, Len(s)), sep)

\* one "key=value" item: the key lower-cased, the value kept; no "=" gives ""
ParseItem(item) ==
    LET k == IndexOf(item, "=")
    IN  IF k = 0 THEN <<ToLower(item), <<>>>>
        ELSE <<ToLower(SubSeq(item, 1, k - 1)), SubSeq(item, k + 1, Len(item))>>

\* the parameters of a format-parameter line, a later key overriding an earlier
ParseParameters(line) ==
    LET items == Split(line, ";")
        kv    == [i \in 1..Len(items) |-> ParseItem(items[i])]
    IN  {kv[i] : i \in {i \in 1..Len(kv) :
                          \A j \in (i + 1)..Len(kv) : kv[j][1] # kv[i][1]}}

\* two parameter sets agree when every key they share has equal values
ParamsEqual(pa, pb) ==
    \A x \in pa : \A y \in pb : x[1] = y[1] => EqualFold(x[2], y[2])

DefaultClockRate(mimeType) ==
    IF EqualFold(mimeType, MimeAudioOpus) THEN 48000 ELSE 90000

DefaultChannels(mimeType) ==
    IF EqualFold(mimeType, MimeAudioOpus) THEN 2 ELSE 0

\* fmtp.ClockRateEqual: 0 stands for the codec family's default
ClockRateEqual(mimeType, valA, valB) ==
    LET va == IF valA = 0 THEN DefaultClockRate(mimeType) ELSE valA
        vb == IF valB = 0 THEN DefaultClockRate(mimeType) ELSE valB
    IN  va = vb

\* fmtp.ChannelsEqual: 0 stands for the codec family's default
ChannelsEqual(mimeType, valA, valB) ==
    LET va == IF valA = 0 THEN DefaultChannels(mimeType) ELSE valA
        vb == IF valB = 0 THEN DefaultChannels(mimeType) ELSE valB
    IN  va = vb

\* fmtp.Parse: the interpreted form
Parse(mimeType, clockRate, channels, line) ==
    [mimeType |-> mimeType, clockRate |-> clockRate, channels |-> channels,
     parameters |-> ParseParameters(line)]

\* FMTP.Match: equivalence of two interpreted forms
Match(fa, fb) ==
    /\ EqualFold(fa.mimeType, fb.mimeType)
    /\ ClockRateEqual(fa.mimeType, fa.clockRate, fb.clockRate)
    /\ ChannelsEqual(fa.mimeType, fa.channels, fb.channels)
    /\ ParamsEqual(fa.parameters, fb.parameters)

(***************************************************************************)
(* rtpcodec.go                                                             *)
(***************************************************************************)
codecMatchNone    == 0
codecMatchPartial == 1
codecMatchExact   == 2

\* RTPCodecParameters{}: the zero value
ZeroCodecParameters ==
    [MimeType |-> <<>>, ClockRate |-> 0, Channels |-> 0, SDPFmtpLine |-> <<>>,
     RTCPFeedback |-> <<>>, PayloadType |-> 0, statsID |-> <<>>]

\* a RTPCodecParameters value
CodecParameters(mime, clock, chans, line, pt) ==
    [MimeType |-> mime, ClockRate |-> clock, Channels |-> chans, SDPFmtpLine |-> line,
     RTCPFeedback |-> <<>>, PayloadType |-> pt, statsID |-> <<>>]

ParseCodec(c) == Parse(c.MimeType, c.ClockRate, c.Channels, c.SDPFmtpLine)

\* a plausible slip: the channel counts left out of the fallback test
PartialTestNoChannels(c, n) ==
    /\ EqualFold(c.MimeType, n.MimeType)
    /\ ClockRateEqual(c.MimeType, c.ClockRate, n.ClockRate)

\* the test of the second loop of codecParametersFuzzySearch
PartialTest(c, n) ==
    /\ EqualFold(c.MimeType, n.MimeType)
    /\ ClockRateEqual(c.MimeType, c.ClockRate, n.ClockRate)
    /\ ChannelsEqual(c.MimeType, c.Channels, n.Channels)

\* first loop (lines 118-128): the position, from i on, of the first entry whose
\* interpreted form matches the needle's; 0 when the loop runs out
RECURSIVE ExactPass(_, _, _)
ExactPass(needleFmtp, hay, i) ==
    IF i > Len(hay) THEN 0
    ELSE IF Match(needleFmtp, ParseCodec(hay[i])) THEN i
    ELSE ExactPass(needleFmtp, hay, i + 1)

\* second loop (lines 131-141): the position, from i on, of the first entry
\* passing the partial test; 0 when the loop runs out
RECURSIVE PartialPass(_, _, _)
PartialPass(n, hay, i) ==
    IF i > Len(hay) THEN 0
    ELSE IF PartialTest(hay[i], n) THEN i
    ELSE PartialPass(n, hay, i + 1)

\* a plausible slip: one loop taking the first entry that passes either test
RECURSIVE SinglePass(_, _, _)
SinglePass(n, hay, i) ==
    IF i > Len(hay) THEN <<ZeroCodecParameters, codecMatchNone>>
    ELSE IF Match(ParseCodec(n), ParseCodec(hay[i])) THEN <<hay[i], codecMatchExact>>
    ELSE IF PartialTest(hay[i], n) THEN <<hay[i], codecMatchPartial>>
    ELSE SinglePass(n, hay, i + 1)

codecParametersFuzzySearchSinglePass(n, hay) == SinglePass(n, hay, 1)

\* a plausible slip: the needle handed back when nothing matches
codecParametersFuzzySearchReturnsNeedle(n, hay) ==
    LET e == ExactPass(ParseCodec(n), hay, 1)
        q == PartialPass(n, hay, 1)
    IN  IF e # 0 THEN <<hay[e], codecMatchExact>>
        ELSE IF q # 0 THEN <<hay[q], codecMatchPartial>>
        ELSE <<n, codecMatchNone>>

codecParametersFuzzySearch(n, hay) ==
    LET e == ExactPass(ParseCodec(n), hay, 1)
        q == PartialPass(n, hay, 1)
    IN  IF e # 0 THEN <<hay[e], codecMatchExact>>
        ELSE IF q # 0 THEN <<hay[q], codecMatchPartial>>
        ELSE <<ZeroCodecParameters, codecMatchNone>>

\* the loop of findRTXPayloadType: the position, from i on, of the first entry
\* whose SDPFmtpLine is aptStr; 0 when the loop runs out
RECURSIVE RTXScan(_, _, _)
RTXScan(aptStr, hay, i) ==
    IF i > Len(hay) THEN 0
    ELSE IF aptStr = hay[i].SDPFmtpLine THEN i
    ELSE RTXScan(aptStr, hay, i + 1)

\* strings.HasPrefix
HasPrefix(s, prefix) ==
    Len(s) >= Len(prefix) /\ SubSeq(s, 1, Len(prefix)) = prefix

\* a plausible slip: the line only has to start with aptStr
RECURSIVE RTXScanPrefix(_, _, _)
RTXScanPrefix(aptStr, hay, i) ==
    IF i > Len(hay) THEN 0
    ELSE IF HasPrefix(hay[i].SDPFmtpLine, aptStr) THEN i
    ELSE RTXScanPrefix(aptStr, hay, i + 1)

findRTXPayloadTypePrefix(p, hay) ==
    LET k == RTXScanPrefix(AptString(p), hay, 1)
    IN  IF k # 0 THEN hay[k].PayloadType ELSE 0

findRTXPayloadType(p, hay) ==
    LET k == RTXScan(AptString(p), hay, 1)
    IN  IF k # 0 THEN hay[k].PayloadType ELSE 0

\* the loop of findFECPayloadType: the position, from i on, of the first entry
\* whose mime type contains the FlexFEC marker; 0 when the loop runs out
RECURSIVE FECScan(_, _)
FECScan(hay, i) ==
    IF i > Len(hay) THEN 0
    ELSE IF Contains(hay[i].MimeType, MimeTypeFlexFEC) THEN i
    ELSE FECScan(hay, i + 1)

\* a plausible slip: the marker looked for in the lower-cased mime type
RECURSIVE FECScanFold(_, _)
FECScanFold(hay, i) ==
    IF i > Len(hay) THEN 0
    ELSE IF Contains(ToLower(hay[i].MimeType), MimeTypeFlexFEC) THEN i
    ELSE FECScanFold(hay, i + 1)

findFECPayloadTypeFold(hay) ==
    LET k == FECScanFold(hay, 1)
    IN  IF k # 0 THEN hay[k].PayloadType ELSE 0

\* a plausible slip: the payload type of the last entry scanned when none is found
findFECPayloadTypeLast(hay) ==
    LET k == FECScan(hay, 1)
    IN  IF k # 0 THEN hay[k].PayloadType
        ELSE IF Len(hay) > 0 THEN hay[Len(hay)].PayloadType ELSE 0

findFECPayloadType(hay) ==
    LET k == FECScan(hay, 1)
    IN  IF k # 0 THEN hay[k].PayloadType ELSE 0

\* the inner loop of rtcpFeedbackIntersection: whether some element of fb, from
\* j on, has the Type and the Parameter of aFeedback
RECURSIVE FeedbackIn(_, _, _)
FeedbackIn(aFeedback, fb, j) ==
    IF j > Len(fb) THEN FALSE
    ELSE IF aFeedback.Type = fb[j].Type /\ aFeedback.Parameter = fb[j].Parameter THEN TRUE
    ELSE FeedbackIn(aFeedback, fb, j + 1)

\* the outer loop of rtcpFeedbackIntersection from position i of fa on, out
\* being what has been appended so far
RECURSIVE FeedbackLoop(_, _, _, _)
FeedbackLoop(fa, fb, i, out) ==
    IF i > Len(fa) THEN out
    ELSE FeedbackLoop(fa, fb, i + 1,
                      IF FeedbackIn(fa[i], fb, 1) THEN Append(out, fa[i]) ELSE out)

\* a plausible slip: no break, so an element is appended once per match in fb
RECURSIVE CountIn(_, _, _)
CountIn(aFeedback, fb, j) ==
    IF j > Len(fb) THEN 0
    ELSE (IF aFeedback = fb[j] THEN 1 ELSE 0) + CountIn(aFeedback, fb, j + 1)

RECURSIVE Repeat(_, _)
Repeat(x, k) == IF k = 0 THEN <<>> ELSE <<x>> \o Repeat(x, k - 1)

RECURSIVE FeedbackLoopNoBreak(_, _, _, _)
FeedbackLoopNoBreak(fa, fb, i, out) ==
    IF i > Len(fa) THEN out
    ELSE FeedbackLoopNoBreak(fa, fb, i + 1, out \o Repeat(fa[i], CountIn(fa[i], fb, 1)))

rtcpFeedbackIntersectionNoBreak(fa, fb) == FeedbackLoopNoBreak(fa, fb, 1, <<>>)

\* a plausible slip: the loops nested the other way round, b outermost
RECURSIVE FeedbackLoopByB(_, _, _, _)
FeedbackLoopByB(fa, fb, j, out) ==
    IF j > Len(fb) THEN out
    ELSE FeedbackLoopByB(fa, fb, j + 1,
            out \o SelectSeq(fa, LAMBDA x : x = fb[j] /\ \A k \in 1..(j - 1) : fb[k] # x))

rtcpFeedbackIntersectionByB(fa, fb) == FeedbackLoopByB(fa, fb, 1, <<>>)

rtcpFeedbackIntersection(fa, fb) == FeedbackLoop(fa, fb, 1, <<>>)

(***************************************************************************)
(* Inputs                                                                  *)
(***************************************************************************)
MaxHaystack == 2

SeqsUpTo(S, n) == UNION {[1..k -> S] : k \in 0..n}

FmtpEmpty   == <<>>
FmtpApt96   == <<"a","p","t","=","9","6">>
FmtpApt9    == <<"a","p","t","=","9">>
FmtpAPT96   == <<"A","P","T","=","9","6">>
FmtpApt096  == <<"a","p","t","=","0","9","6">>
FmtpApt96x  == <<"a","p","t","=","9","6",";","x","=","1">>

SearchMimes == {MimeAudioOpusUpper, MimeVideoVP8}
\* <<clock rate, channels>>: the usual pair, both left to the default, another
\* clock rate, another channel count
SearchRates == {<<48000, 2>>, <<0, 0>>, <<8000, 2>>, <<48000, 1>>}
SearchFmtps == {FmtpApt96, FmtpApt9}

\* haystack entries; the payload type of an entry is 95 + its position
SearchCaps ==
    {CodecParameters(m, r[1], r[2], f, 0) :
        m \in SearchMimes, r \in SearchRates, f \in SearchFmtps}

Numbered(caps) == [i \in 1..Len(caps) |-> [caps[i] EXCEPT !.PayloadType = 95 + i]]

SearchNeedles ==
    {CodecParameters(m, r[1], r[2], f, 0) :
        m \in {MimeAudioOpus, MimeAudioOpusUpper}, r \in {<<48000, 2>>, <<0, 0>>},
        f \in {FmtpEmpty, FmtpApt96, FmtpAPT96}}

(***************************************************************************)
(* Specification of the matching engine                                    *)
(***************************************************************************)
Init ==
    /\ needle \in SearchNeedles
    /\ haystack \in {Numbered(h) : h \in SeqsUpTo(SearchCaps, MaxHaystack)}
    /\ payload = 0
    /\ a = <<>>
    /\ b = <<>>
    /\ op = "none"
    /\ ret = 0
    /\ callers = <<>>

Search ==
    /\ op' = "search"
    /\ ret' = codecParametersFuzzySearch(needle, haystack)
    /\ UNCHANGED <<needle, haystack, payload, a, b, callers>>

Next == Search

Spec == Init /\ [][Next]_vars

(***************************************************************************)
(* Properties of the matching engine                                       *)
(***************************************************************************)
Min(S) == CHOOSE x \in S : \A y \in S : x <= y

\* positions of the haystack whose interpreted form is equivalent to the needle's
ExactSet ==
    {i \in 1..Len(haystack) :
        Match(Parse(needle.MimeType, needle.ClockRate, needle.Channels, needle.SDPFmtpLine),
              Parse(haystack[i].MimeType, haystack[i].ClockRate, haystack[i].Channels,
                    haystack[i].SDPFmtpLine))}

\* positions with the needle's mime type up to case, and a clock rate and a
\* channel count the interpreter judges equivalent to the needle's
PartialSet ==
    {i \in 1..Len(haystack) :
        /\ ToLower(haystack[i].MimeType) = ToLower(needle.MimeType)
        /\ ClockRateEqual(haystack[i].MimeType, haystack[i].ClockRate, needle.ClockRate)
        /\ ChannelsEqual(haystack[i].MimeType, haystack[i].Channels, needle.Channels)}

\* C1: when some entry is interpreter-equivalent to the needle, the search
\* returns the lowest-index such entry tagged codecMatchExact, whatever
\* partial-only entries stand before it.
C1_ExactEarliest ==
    (op = "search" /\ ExactSet # {}) =>
        ret = <<haystack[Min(ExactSet)], codecMatchExact>>

\* an exact match was returned from behind an entry that matches only partially
C1_Witness ==
    /\ op = "search"
    /\ ExactSet # {}
    /\ \E j \in PartialSet \ ExactSet : j < Min(ExactSet)
    /\ ret[2] = codecMatchExact
    /\ ret[1].PayloadType = 95 + Min(ExactSet)

\* C2: with no interpreter-equivalent entry but some entry passing the
\* partial conditions, the search returns the lowest-index such entry tagged
\* codecMatchPartial.
C2_PartialEarliest ==
    (op = "search" /\ ExactSet = {} /\ PartialSet # {}) =>
        ret = <<haystack[Min(PartialSet)], codecMatchPartial>>

\* a partial match was returned from behind an entry that fails the partial test
C2_Witness ==
    /\ op = "search"
    /\ ExactSet = {}
    /\ PartialSet # {}
    /\ Min(PartialSet) > 1
    /\ ret[2] = codecMatchPartial
    /\ ret[1].PayloadType = 95 + Min(PartialSet)

\* C3: the search returns the zero-value RTPCodecParameters tagged
\* codecMatchNone when no entry passes either test, and the tag is
\* codecMatchNone in no other case.
C3_NoneIffNeither ==
    op = "search" =>
        /\ (ret[2] = codecMatchNone) <=> (ExactSet = {} /\ PartialSet = {})
        /\ ret[2] = codecMatchNone =>
               ret[1] = [MimeType |-> <<>>, ClockRate |-> 0, Channels |-> 0,
                         SDPFmtpLine |-> <<>>, RTCPFeedback |-> <<>>,
                         PayloadType |-> 0, statsID |-> <<>>]

\* no match in a non-empty haystack holding an entry of the needle's mime type
C3_Witness ==
    /\ op = "search"
    /\ ret[2] = codecMatchNone
    /\ ret[1].PayloadType = 0
    /\ \E i \in 1..Len(haystack) : EqualFold(haystack[i].MimeType, needle.MimeType)

\* the empty haystack gives no match
C3_WitnessEmpty == op = "search" /\ haystack = <<>> /\ ret[2] = codecMatchNone

(***************************************************************************)
(* Specification of the two auxiliary lookups                              *)
(***************************************************************************)
LookupMimes    == {MimeFlexFEC03, MimeFlexFEC03Upper, MimeVideoVP8}
LookupFmtps    == {FmtpApt96, FmtpApt096, FmtpApt96x}
LookupIds      == {0, 96, 97}
LookupPayloads == {9, 96}

LookupEntries ==
    {CodecParameters(m, 90000, 0, f, pt) :
        m \in LookupMimes, f \in LookupFmtps, pt \in LookupIds}

InitLookup ==
    /\ needle = CodecParameters(MimeFlexFEC03, 90000, 0, FmtpEmpty, 0)
    /\ haystack \in SeqsUpTo(LookupEntries, MaxHaystack)
    /\ payload \in LookupPayloads
    /\ a = <<>>
    /\ b = <<>>
    /\ op = "none"
    /\ ret = 0
    /\ callers = <<>>

FindRTX ==
    /\ op' = "rtx"
    /\ ret' = findRTXPayloadType(payload, haystack)
    /\ UNCHANGED <<needle, haystack, payload, a, b, callers>>

FindFEC ==
    /\ op' = "fec"
    /\ ret' = findFECPayloadType(haystack)
    /\ UNCHANGED <<needle, haystack, payload, a, b, callers>>

NextLookup == FindRTX \/ FindFEC

SpecLookup == InitLookup /\ [][NextLookup]_vars

(***************************************************************************)
(* Properties of the auxiliary lookups                                     *)
(***************************************************************************)
DigitValue(c) == CHOOSE d \in 0..9 : DigitChars[d + 1] = c

RECURSIVE DecimalValue(_)
DecimalValue(s) ==
    IF Len(s) = 0 THEN 0
    ELSE 10 * DecimalValue(SubSeq(s, 1, Len(s) - 1)) + DigitValue(s[Len(s)])

\* s is the decimal text of p: digits only, no leading zero, of value p
IsDecimalOf(s, p) ==
    /\ Len(s) >= 1
    /\ \A i \in 1..Len(s) : s[i] \in Range(DigitChars)
    /\ Len(s) > 1 => s[1] # "0"
    /\ DecimalValue(s) = p

\* line is exactly "apt=" followed by the decimal text of p
IsAptLine(line, p) ==
    /\ Len(line) > 4
    /\ SubSeq(line, 1, 4) = <<"a","p","t","=">>
    /\ IsDecimalOf(SubSeq(line, 5, Len(line)), p)

RtxSet == {i \in 1..Len(haystack) : IsAptLine(haystack[i].SDPFmtpLine, payload)}

\* mime contains the FlexFEC marker, letter case observed
HasMarker(mime) ==
    \E k \in 1..Len(mime) :
        /\ k + Len(MimeTypeFlexFEC) - 1 <= Len(mime)
        /\ SubSeq(mime, k, k + Len(MimeTypeFlexFEC) - 1) = MimeTypeFlexFEC

FecSet == {i \in 1..Len(haystack) : HasMarker(haystack[i].MimeType)}

\* C4: findRTXPayloadType(p, haystack) is the PayloadType of the lowest-index
\* entry whose SDPFmtpLine is exactly "apt=" and the decimal text of p, and 0
\* when there is none; p = 96 with a first entry {"apt=96", 97} gives 97.
C4_RtxFirstLiteral ==
    op = "rtx" =>
        /\ ret = IF RtxSet = {} THEN 0 ELSE haystack[Min(RtxSet)].PayloadType
        /\ (/\ payload = 96
            /\ Len(haystack) >= 1
            /\ haystack[1].SDPFmtpLine = <<"a","p","t","=","9","6">>
            /\ haystack[1].PayloadType = 97) => ret = 97

\* the match was found behind a line with a leading zero and before another
\* match with another identifier
C4_Witness ==
    /\ op = "rtx"
    /\ payload = 96
    /\ Len(haystack) >= 2
    /\ haystack[1].SDPFmtpLine = FmtpApt096
    /\ haystack[1].PayloadType = 96
    /\ RtxSet # {}
    /\ Min(RtxSet) = 2
    /\ haystack[2].PayloadType = 97
    /\ ret = 97

\* C5: findFECPayloadType is 0 for the empty haystack and for one in which no
\* mime type contains the marker, letter case observed, and else the
\* PayloadType of the lowest-index entry whose mime type contains it.
C5_FecFirstMarker ==
    op = "fec" =>
        ret = IF FecSet = {} THEN 0 ELSE haystack[Min(FecSet)].PayloadType

\* the entry was found behind an entry without the marker
C5_Witness ==
    /\ op = "fec"
    /\ Len(haystack) >= 2
    /\ haystack[1].MimeType = MimeVideoVP8
    /\ haystack[1].PayloadType = 96
    /\ FecSet # {}
    /\ Min(FecSet) = 2
    /\ ret = 97

\* the empty haystack gives 0
C5_WitnessEmpty == op = "fec" /\ haystack = <<>> /\ ret = 0

NoZeroId == \A i \in 1..Len(haystack) : haystack[i].PayloadType # 0

\* C9: when no entry carries the identifier 0, either lookup returns 0 exactly
\* when no entry qualifies, and a non-zero result is the identifier of an
\* entry that qualifies.
C9_SentinelUnambiguous ==
    NoZeroId =>
        /\ op = "rtx" =>
              /\ (ret = 0) <=> (RtxSet = {})
              /\ ret # 0 => \E i \in RtxSet : haystack[i].PayloadType = ret
        /\ op = "fec" =>
              /\ (ret = 0) <=> (FecSet = {})
              /\ ret # 0 => \E i \in FecSet : haystack[i].PayloadType = ret

\* the FEC lookup found nothing in a non-empty haystack without identifier 0
C9_Witness ==
    /\ NoZeroId
    /\ Len(haystack) >= 1
    /\ op = "fec"
    /\ FecSet = {}
    /\ ret = 0

\* the RTX lookup found an entry in a haystack without identifier 0
C9_WitnessFound ==
    /\ NoZeroId
    /\ op = "rtx"
    /\ RtxSet # {}
    /\ ret # 0

\* the haystacks that differ from hay only in the letter case of mime types
CaseVariants(hay) ==
    {[i \in 1..Len(hay) |-> [hay[i] EXCEPT !.MimeType = g[i]]] :
        g \in {g \in [1..Len(hay) -> LookupMimes] :
                  \A i \in 1..Len(hay) : ToLower(g[i]) = ToLower(hay[i].MimeType)}}

\* the needles that differ from n only in the letter case of the mime type
NeedleVariants(n) ==
    {[n EXCEPT !.MimeType = m] :
        m \in {m \in LookupMimes : ToLower(m) = ToLower(n.MimeType)}}

\* C8: changing only the letter case of mime types changes neither the entry
\* the partial-match pass selects nor the entry findFECPayloadType selects.
C8_MimeCaseIrrelevant ==
    \A h2 \in CaseVariants(haystack) : \A n2 \in NeedleVariants(needle) :
        /\ PartialPass(n2, h2, 1) = PartialPass(needle, haystack, 1)
        /\ FECScan(h2, 1) = FECScan(haystack, 1)
        /\ findFECPayloadType(h2) = findFECPayloadType(haystack)

\* the part of C8 that holds: the partial-match pass
C8_PartialPassCaseIrrelevant ==
    \A h2 \in CaseVariants(haystack) : \A n2 \in NeedleVariants(needle) :
        PartialPass(n2, h2, 1) = PartialPass(needle, haystack, 1)

(***************************************************************************)
(* Specification of the feedback intersection                              *)
(***************************************************************************)
MaxFeedback == 3

TypeNack      == <<"n","a","c","k">>
TypeNackUpper == <<"N","A","C","K">>
ParamPli      == <<"p","l","i">>

\* a RTCPFeedback value
Feedback(type, parameter) == [Type |-> type, Parameter |-> parameter]

Feedbacks ==
    {Feedback(TypeNack, <<>>), Feedback(TypeNack, ParamPli), Feedback(TypeNackUpper, <<>>)}

InitFeedback ==
    /\ needle = ZeroCodecParameters
    /\ haystack = <<>>
    /\ payload = 0
    /\ a \in SeqsUpTo(Feedbacks, MaxFeedback)
    /\ b \in SeqsUpTo(Feedbacks, MaxFeedback)
    /\ op = "none"
    /\ ret = 0
    /\ callers = <<>>

Intersect ==
    /\ op' = "fb"
    /\ ret' = rtcpFeedbackIntersection(a, b)
    /\ UNCHANGED <<needle, haystack, payload, a, b, callers>>

NextFeedback == Intersect

SpecFeedback == InitFeedback /\ [][NextFeedback]_vars

(***************************************************************************)
(* Properties of the feedback intersection                                 *)
(***************************************************************************)
\* some element of fb has the Type and the Parameter of x
InList(x, fb) ==
    \E j \in 1..Len(fb) : fb[j].Type = x.Type /\ fb[j].Parameter = x.Parameter

\* C6: rtcpFeedbackIntersection(a, b) is the subsequence of a, in a's order,
\* of the positions whose element occurs in b, one output element for each
\* such position; a = [nack, nack pli, nack], b = [nack] gives [nack, nack].
C6_SubsequenceOfA ==
    op = "fb" =>
        /\ ret = SelectSeq(a, LAMBDA x : InList(x, b))
        /\ (/\ a = <<Feedback(TypeNack, <<>>), Feedback(TypeNack, ParamPli),
                     Feedback(TypeNack, <<>>)>>
            /\ b = <<Feedback(TypeNack, <<>>)>>)
           => ret = <<Feedback(TypeNack, <<>>), Feedback(TypeNack, <<>>)>>

\* a holds a duplicate that is kept twice and an element that is dropped,
\* and b holds the kept element more than once
C6_Witness ==
    /\ op = "fb"
    /\ Len(a) = 3
    /\ a[1] = a[3]
    /\ a[2] # a[1]
    /\ ~InList(a[2], b)
    /\ Len(b) >= 2
    /\ b[1] = a[1]
    /\ b[2] = a[1]
    /\ ret = <<a[1], a[3]>>

Perms(n) == {f \in [1..n -> 1..n] : \A i, j \in 1..n : f[i] = f[j] => i = j}

Permuted(s, f) == [i \in 1..Len(s) |-> s[f[i]]]

\* the lists of the model's lengths holding exactly the elements of fb
SameElements(fb) ==
    {s \in SeqsUpTo(Range(fb), MaxFeedback) : Range(s) = Range(fb)}

\* C7: the result depends neither on the order of b nor on how often an
\* element is repeated in b, while a permutation of a gives the kept
\* elements in the permuted order.
C7_OrderOfBIrrelevant ==
    op = "fb" =>
        /\ \A f \in Perms(Len(b)) : rtcpFeedbackIntersection(a, Permuted(b, f)) = ret
        /\ \A b2 \in SameElements(b) : rtcpFeedbackIntersection(a, b2) = ret
        /\ \A f \in Perms(Len(a)) :
              rtcpFeedbackIntersection(Permuted(a, f), b)
                  = SelectSeq(Permuted(a, f), LAMBDA x : x \in Range(ret))

\* b holds two different elements of a, in the order opposite to a's, and
\* reordering a changes the result
C7_Witness ==
    /\ op = "fb"
    /\ Len(a) >= 2
    /\ Len(b) >= 2
    /\ a[1] # a[2]
    /\ b[1] = a[2]
    /\ b[2] = a[1]
    /\ ret[1] = a[1]
    /\ ret[2] = a[2]
    /\ \E f \in Perms(Len(a)) : rtcpFeedbackIntersection(Permuted(a, f), b) # ret

(***************************************************************************)
(* Specification of concurrent callers over shared read-only lists         *)
(*                                                                         *)
(* Each caller runs one operation at a time, one loop iteration per step;  *)
(* its loop index, its locals and its result are its own, the needle and   *)
(* the lists are shared.                                                   *)
(***************************************************************************)
NumCallers == 2

Callers == 1..NumCallers

Ops == {"search", "rtx", "fec", "fb"}

ConcNeedle == CodecParameters(MimeAudioOpus, 48000, 2, FmtpApt96, 0)

\* a partial-only entry before an entry of another mime type that is the RTX
\* and the FEC entry; a partial-only entry before an exact one
ConcHaystacks ==
    {<<CodecParameters(MimeAudioOpusUpper, 48000, 2, FmtpApt9, 96),
       CodecParameters(MimeFlexFEC03, 90000, 0, FmtpApt96, 97)>>,
     <<CodecParameters(MimeAudioOpusUpper, 48000, 2, FmtpApt9, 96),
       CodecParameters(MimeAudioOpusUpper, 0, 0, FmtpAPT96, 97)>>}

ConcListsA ==
    {<<Feedback(TypeNack, ParamPli), Feedback(TypeNack, <<>>)>>,
     <<Feedback(TypeNack, <<>>), Feedback(TypeNack, ParamPli), Feedback(TypeNack, <<>>)>>}

ConcListsB ==
    {<<Feedback(TypeNack, <<>>)>>,
     <<Feedback(TypeNack, ParamPli), Feedback(TypeNack, <<>>)>>}

\* a caller outside any call
IdleCaller ==
    [pc |-> "idle", op |-> "none", i |-> 0, needleFmtp |-> <<>>, aptStr |-> <<>>,
     out |-> <<>>, ret |-> 0]

InitConc ==
    /\ needle = ConcNeedle
    /\ haystack \in ConcHaystacks
    /\ payload = 96
    /\ a \in ConcListsA
    /\ b \in ConcListsB
    /\ op = "none"
    /\ ret = 0
    /\ callers = [c \in Callers |-> IdleCaller]

\* caller c enters operation o: the statements before the first loop
Call(c, o) ==
    /\ callers[c].pc \in {"idle", "done"}
    /\ callers' = [callers EXCEPT ![c] =
          [pc |-> IF o = "search" THEN "exact" ELSE o,
           op |-> o,
           i |-> 1,
           needleFmtp |-> IF o = "search" THEN ParseCodec(needle) ELSE <<>>,
           aptStr |-> IF o = "rtx" THEN AptString(payload) ELSE <<>>,
           out |-> <<>>,
           ret |-> 0]]
    /\ UNCHANGED <<needle, haystack, payload, a, b, op, ret>>

\* one iteration of the first loop of codecParametersFuzzySearch
ExactStep(c) ==
    LET me == callers[c] IN
    /\ me.pc = "exact"
    /\ callers' = [callers EXCEPT ![c] =
          IF me.i > Len(haystack) THEN [me EXCEPT !.pc = "partial", !.i = 1]
          ELSE IF Match(me.needleFmtp, ParseCodec(haystack[me.i]))
               THEN [me EXCEPT !.pc = "done", !.ret = <<haystack[me.i], codecMatchExact>>]
               ELSE [me EXCEPT !.i = me.i + 1]]
    /\ UNCHANGED <<needle, haystack, payload, a, b, op, ret>>

\* one iteration of the second loop of codecParametersFuzzySearch
PartialStep(c) ==
    LET me == callers[c] IN
    /\ me.pc = "partial"
    /\ callers' = [callers EXCEPT ![c] =
          IF me.i > Len(haystack)
          THEN [me EXCEPT !.pc = "done", !.ret = <<ZeroCodecParameters, codecMatchNone>>]
          ELSE IF PartialTest(haystack[me.i], needle)
               THEN [me EXCEPT !.pc = "done", !.ret = <<haystack[me.i], codecMatchPartial>>]
               ELSE [me EXCEPT !.i = me.i + 1]]
    /\ UNCHANGED <<needle, haystack, payload, a, b, op, ret>>

\* one iteration of the loop of findRTXPayloadType
RTXStep(c) ==
    LET me == callers[c] IN
    /\ me.pc = "rtx"
    /\ callers' = [callers EXCEPT ![c] =
          IF me.i > Len(haystack) THEN [me EXCEPT !.pc = "done", !.ret = 0]
          ELSE IF me.aptStr = haystack[me.i].SDPFmtpLine
               THEN [me EXCEPT !.pc = "done", !.ret = haystack[me.i].PayloadType]
               ELSE [me EXCEPT !.i = me.i + 1]]
    /\ UNCHANGED <<needle, haystack, payload, a, b, op, ret>>

\* one iteration of the loop of findFECPayloadType
FECStep(c) ==
    LET me == callers[c] IN
    /\ me.pc = "fec"
    /\ callers' = [callers EXCEPT ![c] =
          IF me.i > Len(haystack) THEN [me EXCEPT !.pc = "done", !.ret = 0]
          ELSE IF Contains(haystack[me.i].MimeType, MimeTypeFlexFEC)
               THEN [me EXCEPT !.pc = "done", !.ret = haystack[me.i].PayloadType]
               ELSE [me EXCEPT !.i = me.i + 1]]
    /\ UNCHANGED <<needle, haystack, payload, a, b, op, ret>>

\* a plausible slip: out filtered in place (out := a[:0]), so that an append
\* writes into the array of a
FeedbackStepInPlace(c) ==
    LET me == callers[c] IN
    /\ me.pc = "fb"
    /\ IF me.i > Len(a)
       THEN /\ callers' = [callers EXCEPT ![c] = [me EXCEPT !.pc = "done", !.ret = me.out]]
            /\ a' = a
       ELSE IF FeedbackIn(a[me.i], b, 1)
            THEN /\ callers' = [callers EXCEPT ![c] =
                       [me EXCEPT !.i = me.i + 1, !.out = Append(me.out, a[me.i])]]
                 /\ a' = [a EXCEPT ![Len(me.out) + 1] = a[me.i]]
            ELSE /\ callers' = [callers EXCEPT ![c] = [me EXCEPT !.i = me.i + 1]]
                 /\ a' = a
    /\ UNCHANGED <<needle, haystack, payload, b, op, ret>>

\* one iteration of the outer loop of rtcpFeedbackIntersection
FeedbackStep(c) ==
    LET me == callers[c] IN
    /\ me.pc = "fb"
    /\ callers' = [callers EXCEPT ![c] =
          IF me.i > Len(a) THEN [me EXCEPT !.pc = "done", !.ret = me.out]
          ELSE IF FeedbackIn(a[me.i], b, 1)
               THEN [me EXCEPT !.i = me.i + 1, !.out = Append(me.out, a[me.i])]
               ELSE [me EXCEPT !.i = me.i + 1]]
    /\ UNCHANGED <<needle, haystack, payload, a, b, op, ret>>

NextConc ==
    \E c \in Callers :
        \/ \E o \in Ops : Call(c, o)
        \/ ExactStep(c)
        \/ PartialStep(c)
        \/ RTXStep(c)
        \/ FECStep(c)
        \/ FeedbackStep(c)

SpecConc == InitConc /\ [][NextConc]_vars

(***************************************************************************)
(* Properties of concurrent callers                                        *)
(***************************************************************************)
\* what operation o returns when run alone on the shared inputs
AloneResult(o) ==
    CASE o = "search" -> codecParametersFuzzySearch(needle, haystack)
      [] o = "rtx"    -> findRTXPayloadType(payload, haystack)
      [] o = "fec"    -> findFECPayloadType(haystack)
      [] o = "fb"     -> rtcpFeedbackIntersection(a, b)

\* C10: no step of any caller changes the needle, the payload type or a
\* list, and every call that has returned, whatever the other callers did
\* meanwhile, holds the result the operation gives alone on those inputs.
C10_ReadOnlyAndIndependent ==
    /\ [][/\ needle' = needle
          /\ haystack' = haystack
          /\ payload' = payload
          /\ a' = a
          /\ b' = b]_vars
    /\ [](\A c \in Callers :
            callers[c].pc = "done" => callers[c].ret = AloneResult(callers[c].op))

\* caller 1 has returned from a search while caller 2 is inside the feedback
\* loop with an element already appended, over the same lists
C10_Witness ==
    /\ callers[1].pc = "done"
    /\ callers[1].op = "search"
    /\ callers[1].ret[2] = codecMatchPartial
    /\ callers[2].pc = "fb"
    /\ callers[2].i = 3
    /\ Len(callers[2].out) = 1

====
